---- MODULE Spec2Model ----
(***************************************************************************)
(* Model of the compliance-scanning utility.                               *)
(*                                                                         *)
(*   src/compliance_check.py                    (primary variant)          *)
(*   src/.github/workflows/compliance_check.py  (clone-based variant)      *)
(*                                                                         *)
(* A behaviour is a sequence of runs, one after the other, that share one   *)
(* file system: the directory "temp", the report compliance_report.csv,    *)
(* the temporary clone directories.  Everything else is process memory and *)
(* is reset when a run starts.  The interpreter is the default one         *)
(* (assert statements are executed).                                       *)
(*                                                                         *)
(* External collaborators are modelled at their boundary:                  *)
(*   - requests.get(None) raises MissingSchema before any network I/O;     *)
(*     a request may fail with ConnectionError;                            *)
(*   - response.status_code is an int; the listing service answers 200     *)
(*     with a JSON list, 404 with a JSON object, 500 with a non-JSON body; *)
(*   - the analysis engine is opaque: an invocation either raises, or      *)
(*     appends freshly allocated issue objects to the manager's result     *)
(*     list, which is one list object for the whole scan;                  *)
(*   - an engine issue object hashes by identity, so set() merges only     *)
(*     references to the same object.                                      *)
(***************************************************************************)
EXTENDS Integers, Sequences, FiniteSets, Bags, TLC

\* ------------------------------------------------------------------ bounds
MaxFindings == 2    \* issue objects the engine allocates during one scan
MaxSegments == 3    \* path segments of a repository reference
MaxEntries == 3     \* entries of one directory listing
MaxTmpDirs == 3     \* temporary directories that exist at one time
MaxResults == 2     \* results of the engine's JSON payload
MaxIssues == 3      \* length of an issue list passed to save_compliance_report

\* ------------------------------------------------------------ Python values
None == "None"

\* A Python value that is an int or a str; == never holds across the types.
PyInt(n) == [type |-> "int", num |-> n, str |-> ""]
PyStr(s) == [type |-> "str", num |-> 0, str |-> s]
PyEq(a, b) == a.type = b.type /\ a.num = b.num /\ a.str = b.str

\* A file name is <<stem, extension>>; str.lower() acts on the extension.
Lower(ext) ==
    CASE ext = ".PY" -> ".py"
      [] ext = ".Py" -> ".py"
      [] OTHER -> ext
\* file_name.lower().endswith(".py")   (download_files, line 67)
IsPythonNameIgnoreCase(name) == Lower(name[2]) = ".py"
\* file.endswith('.py')                (scan_directory, line 114)
IsPythonName(name) == name[2] = ".py"

\* -------------------------------------------------- repository references
GitHubPrefix == "https://github.com/"
Prefixes == {GitHubPrefix, "https://gitlab.com/"}
SegmentNames == {"", "owner", "repo"}
\* url[len(prefix):].split('/') : never empty, segments may be empty strings
Paths == UNION {[1..n -> SegmentNames] : n \in 1..MaxSegments}
References == [prefix : Prefixes, path : Paths]

NoneUrl == [kind |-> "None", owner |-> "", repo |-> ""]
ContentsUrl(o, r) == [kind |-> "contents", owner |-> o, repo |-> r]

\* convert_github_url_to_api: the exception it raises ("none": it returns)
\* and the value it returns.
convert_github_url_to_api(url) ==
    IF url.prefix # GitHubPrefix
    THEN [exc |-> "ValueError", val |-> NoneUrl]
    ELSE IF ~(Len(url.path) >= 2)
    THEN [exc |-> "AssertionError", val |-> NoneUrl]
    ELSE [exc |-> "none", val |-> ContentsUrl(url.path[1], url.path[2])]

\* References given on the command line of the primary entry point.
CommandLineRefs ==
    {r \in References : r.path \in {<<"owner">>, <<"owner", "repo">>}}
\* sys.argv: its length and, when the length is 2, sys.argv[1]
CommandLines ==
    [argc : {2}, ref : CommandLineRefs]
        \cup [argc : {1}, ref : {[prefix |-> GitHubPrefix, path |-> <<"owner">>]}]

\* ------------------------------------------------------ the listing service
\* One entry of a directory listing.  A directory has no download URL; its
\* nested listing is what a request to its url would return.
FileEntry(name) ==
    [name |-> name, type |-> "file", download_url |-> name[1] \o name[2],
     children |-> <<>>]
DirEntry(name, kids) ==
    [name |-> name, type |-> "dir", download_url |-> None, children |-> kids]

TopEntries ==
    << FileEntry(<<"a", ".py">>),
       DirEntry(<<"sub", "">>, << FileEntry(<<"b", ".py">>) >>),
       FileEntry(<<"c", ".py">>),
       FileEntry(<<"D", ".PY">>),
       FileEntry(<<"readme", ".md">>) >>

RECURSIVE Pick(_, _)
\* the entries of TopEntries whose index is in S, from index i on, in order
Pick(i, S) ==
    IF i > Len(TopEntries) THEN <<>>
    ELSE IF i \in S THEN <<TopEntries[i]>> \o Pick(i + 1, S)
    ELSE Pick(i + 1, S)

Listings ==
    {Pick(1, S) : S \in {T \in SUBSET (1..Len(TopEntries)) : Cardinality(T) <= MaxEntries}}

\* What requests.get returns or raises for a listing URL.
Responses ==
    [net : {"ok"}, status : {PyInt(200)}, kind : {"list"}, entries : Listings]
        \cup [net : {"ok"}, status : {PyInt(404)}, kind : {"dict"}, entries : {<<>>}]
        \cup [net : {"ok"}, status : {PyInt(500)}, kind : {"nonjson"}, entries : {<<>>}]
        \cup [net : {"ConnectionError"}, status : {PyInt(0)}, kind : {"none"}, entries : {<<>>}]
NoResponse == [net |-> "none", status |-> PyInt(0), kind |-> "none", entries |-> <<>>]

RECURSIVE PythonFilesOf(_)
\* every file entry with a .py name reachable through nested listings
PythonFilesOf(entries) ==
    IF entries = <<>> THEN {}
    ELSE LET e == Head(entries) IN
         (IF e.type = "file"
          THEN (IF IsPythonNameIgnoreCase(e.name) THEN {e.name} ELSE {})
          ELSE PythonFilesOf(e.children))
         \cup PythonFilesOf(Tail(entries))

\* ---------------------------------------------------------- download_files
\* open(file_name, 'w').write(content): creates or replaces the file
WriteFile(files, name, content) ==
    {f \in files : f.name # name} \cup {[name |-> name, content |-> content]}

RECURSIVE DownloadLoop(_, _, _, _, _)
\* the loop of lines 64-73 from entry i on; failAt is the entry whose content
\* request fails with ConnectionError (0: none)
DownloadLoop(entries, i, files, staged, failAt) ==
    IF i > Len(entries)
    THEN [exc |-> "none", files |-> files, staged |-> staged]
    ELSE LET e == entries[i] IN
         IF ~IsPythonNameIgnoreCase(e.name)
         THEN DownloadLoop(entries, i + 1, files, staged, failAt)
         ELSE IF e.download_url = None
         THEN [exc |-> "MissingSchema", files |-> files, staged |-> staged]
         ELSE IF failAt = i
         THEN [exc |-> "ConnectionError", files |-> files, staged |-> staged]
         ELSE DownloadLoop(entries, i + 1,
                           WriteFile(files, e.name, e.download_url),
                           staged \cup {e.name}, failAt)

\* download_files(repo_url, local_dir): the exception that ends it ("none":
\* it returns), the directory and its files afterwards, the names it staged
\* and whether it created the directory.
download_files(repo_url, resp, exists, files, failAt) ==
    LET same == [exists |-> exists, files |-> files, staged |-> {}, made |-> FALSE] IN
    IF repo_url = NoneUrl
    THEN [exc |-> "MissingSchema"] @@ same
    ELSE IF resp.net # "ok"
    THEN [exc |-> resp.net] @@ same
    ELSE IF resp.kind = "nonjson"
    THEN [exc |-> "JSONDecodeError"] @@ same
    ELSE IF resp.kind = "dict"
    THEN [exc |-> "TypeError", exists |-> TRUE, files |-> files, staged |-> {},
          made |-> ~exists]
    ELSE LET r == DownloadLoop(resp.entries, 1, files, {}, failAt) IN
         [exc |-> r.exc, exists |-> TRUE, files |-> r.files, staged |-> r.staged,
          made |-> ~exists]

\* ------------------------------------------------------ listing functions
\* response.status_code == '200'   (lines 20 and 44)
StatusIs200(status) == PyEq(status, PyStr("200"))

RECURSIVE DownloadUrls(_)
\* [file['download_url'] for file in files if file['type'] == "file"]
DownloadUrls(entries) ==
    IF entries = <<>> THEN <<>>
    ELSE (IF Head(entries).type = "file" THEN <<Head(entries).download_url>> ELSE <<>>)
             \o DownloadUrls(Tail(entries))

\* get_first_level_files(url): the exception that leaves it, what it returns
get_first_level_files(resp) ==
    IF resp.net # "ok" THEN [exc |-> resp.net, ret |-> <<>>]
    ELSE IF ~StatusIs200(resp.status) THEN [exc |-> "AssertionError", ret |-> <<>>]
    ELSE IF resp.kind = "nonjson" THEN [exc |-> "JSONDecodeError", ret |-> <<>>]
    ELSE IF resp.kind = "dict" THEN [exc |-> "TypeError", ret |-> <<>>]
    ELSE [exc |-> "none", ret |-> DownloadUrls(resp.entries)]

RECURSIVE FileListLoop(_, _)
\* lines 22-27: a file entry is appended to file_list; a directory entry
\* reaches the call of get_all_nested_files, a name nothing defines
FileListLoop(entries, list) ==
    IF entries = <<>> THEN [exc |-> "none", list |-> list]
    ELSE LET item == Head(entries) IN
         IF item.type = "file"
         THEN FileListLoop(Tail(entries), Append(list, item.download_url))
         ELSE IF item.type = "dir"
         THEN [exc |-> "NameError", list |-> list]
         ELSE FileListLoop(Tail(entries), list)

\* get_file_list_recursive(url) with the default file_list: the exception
\* that leaves it, what it returns, and the default list afterwards
get_file_list_recursive(resp, list) ==
    IF resp.net # "ok" THEN [exc |-> resp.net, ret |-> <<>>, list |-> list]
    ELSE IF ~StatusIs200(resp.status)
    THEN [exc |-> "AssertionError", ret |-> <<>>, list |-> list]
    ELSE IF resp.kind = "nonjson"
    THEN [exc |-> "JSONDecodeError", ret |-> <<>>, list |-> list]
    ELSE IF resp.kind = "dict"
    THEN [exc |-> "TypeError", ret |-> <<>>, list |-> list]
    ELSE LET r == FileListLoop(resp.entries, list) IN
         [exc |-> r.exc, ret |-> IF r.exc = "none" THEN r.list ELSE <<>>,
          list |-> r.list]

\* ------------------------------------------------------ the analysis engine
\* What the engine can report at one place of a file.
FindingKinds ==
    { [lineno |-> 1, severity |-> "HIGH", confidence |-> "HIGH", text |-> "shell=True"],
      [lineno |-> 2, severity |-> "LOW", confidence |-> "HIGH", text |-> "assert used"] }

\* One invocation of the engine on one file: it raises, or it reports a
\* sequence of findings (two of them may agree in every reported field).
EngineOutcomes ==
    [raises : {TRUE}, kinds : {<<>>}]
        \cup [raises : {FALSE},
              kinds : UNION {[1..n -> FindingKinds] : n \in 0..MaxFindings}]

\* The issue objects the engine allocates: id is the object's identity.
NewIssues(path, kinds, firstId) ==
    [i \in 1..Len(kinds) |->
        [id |-> firstId + i - 1, fname |-> path, lineno |-> kinds[i].lineno,
         severity |-> kinds[i].severity, confidence |-> kinds[i].confidence,
         text |-> kinds[i].text]]

\* run_bandit_on_file without its try/except: the engine's exception leaves it
run_bandit_on_file_uncaught(results, path, outcome, firstId) ==
    IF outcome.raises
    THEN [exc |-> "Exception", ret |-> <<>>, results |-> results]
    ELSE LET after == results \o NewIssues(path, outcome.kinds, firstId) IN
         [exc |-> "none", ret |-> after, results |-> after]

\* run_bandit_on_file(b_mgr, file_path): what it returns, the manager's result
\* list afterwards, and the exception that leaves it ("none": it returns).
run_bandit_on_file(results, path, outcome, firstId) ==
    IF outcome.raises
    THEN [exc |-> "none", ret |-> <<>>, results |-> results]
    ELSE LET after == results \o NewIssues(path, outcome.kinds, firstId) IN
         [exc |-> "none", ret |-> after, results |-> after]

\* ------------------------------------------------------------- the report
Range(seq) == {seq[i] : i \in DOMAIN seq}

\* os.path.basename of a path <<directory, name>>
basename(path) == path[2]

format_issue(issue) ==
    [File |-> basename(issue.fname), Line |-> issue.lineno,
     Severity |-> issue.severity, Confidence |-> issue.confidence,
     Issue |-> issue.text]

Columns == <<"File", "Line", "Severity", "Confidence", "Issue">>

\* set(issues): issue objects hash by identity, so two objects stay two
\* elements however their fields compare.
unique_issues(issues) == Range(issues)

\* The rows written for a set of issue objects.  The order of the rows is the
\* set's iteration order, which nothing fixes: the rows are kept as a bag.
RowsOf(objects) ==
    [r \in {format_issue(i) : i \in objects} |->
        Cardinality({i \in objects : format_issue(i) = r})]

\* save_compliance_report(issues, output_file): the file it writes
save_compliance_report(issues) ==
    [exists |-> TRUE,
     header |-> IF issues = <<>> THEN <<>> ELSE Columns,
     rows |-> RowsOf(unique_issues(issues))]

NoReport == [exists |-> FALSE, header |-> <<>>, rows |-> EmptyBag]

\* Issue lists a caller can pass to save_compliance_report: up to MaxFindings
\* issue objects, each with its own fields, referenced in any order, any
\* number of times.
IssuePaths ==
    { <<"temp", <<"a", ".py">> >>, <<"temp/pkg", <<"a", ".py">> >>,
      <<"temp", <<"c", ".py">> >> }
IssueLists ==
    UNION { { [i \in 1..n |->
                 [id |-> refs[i], fname |-> fields[refs[i]][1],
                  lineno |-> fields[refs[i]][2].lineno,
                  severity |-> fields[refs[i]][2].severity,
                  confidence |-> fields[refs[i]][2].confidence,
                  text |-> fields[refs[i]][2].text]]
              : refs \in [1..n -> 1..MaxFindings],
                fields \in [1..MaxFindings -> IssuePaths \X FindingKinds] }
            : n \in 0..MaxIssues }

\* ------------------------------------------- clone-based variant: payload
\* One element of the payload's 'results'; complete: it has all six keys.
ResultRecords ==
    [filename : {"a.py"}, line_number : {1}, issue_severity : {"HIGH"},
     issue_confidence : {"HIGH"}, issue_text : {"shell=True"}, more_info : {"url"},
     complete : BOOLEAN]
\* What the engine prints on stdout: text that is not JSON, a JSON object
\* without the key 'results', or one with it.
Payloads ==
    [json : {FALSE}, hasResults : {FALSE}, results : {<<>>}]
        \cup [json : {TRUE}, hasResults : {FALSE}, results : {<<>>}]
        \cup [json : {TRUE}, hasResults : {TRUE},
              results : UNION {[1..n -> ResultRecords] : n \in 0..MaxResults}]
NoPayload == [json |-> FALSE, hasResults |-> FALSE, results |-> <<>>]

AltHeaders ==
    <<"Filename", "Line Number", "Issue Severity", "Issue Confidence", "Issue Text",
      "More Info">>
NoAltReport == [exists |-> FALSE, header |-> <<>>, rows |-> <<>>]

RECURSIVE CsvRows(_)
\* step 4, lines 25-33: the rows, or the KeyError of the first incomplete result
CsvRows(results) ==
    IF results = <<>> THEN [exc |-> "none", rows |-> <<>>]
    ELSE LET r == Head(results) IN
         IF ~r.complete THEN [exc |-> "KeyError", rows |-> <<>>]
         ELSE LET rest == CsvRows(Tail(results)) IN
              [exc |-> rest.exc,
               rows |-> IF rest.exc = "none"
                        THEN << <<r.filename, r.line_number, r.issue_severity,
                                  r.issue_confidence, r.issue_text, r.more_info>> >>
                                 \o rest.rows
                        ELSE <<>>]

\* tempfile.mkdtemp(): a directory that did not exist
FreshDir(dirs) == CHOOSE d \in 1..(Cardinality(dirs) + 1) : d \notin dirs

\* ------------------------------------------------------------------- state
VARIABLES
    \* the file system, shared by all runs
    tempExists,     \* the staging directory "temp" exists
    tempFiles,      \* its files: [name, content]
    report,         \* compliance_report.csv
    \* the running process
    prog,           \* which program or function the run executes
    pc,             \* its position
    argv,           \* the command line of the primary entry point
    api_url,        \* the resolved listing endpoint, or NoneUrl
    exc,            \* the exception that ended the run, or "none"
    called,         \* the operations the run has performed
    printed,        \* the diagnostics it has printed
    response,       \* the listing response it received
    staged,         \* the names download_files staged in this run
    walkLeft,       \* the files os.walk has still to yield
    invoked,        \* the files the engine was invoked on, in order
    failed,         \* the files whose invocation raised
    b_results,      \* b_mgr.results
    issues,         \* scan_directory's issues list
    reportAtStart,  \* compliance_report.csv when the run started
    saveCalls,      \* calls of save_compliance_report in this run
    \* the clone-based variant
    tmpDirs,        \* the temporary directories that exist
    temp_dir,       \* run_bandit's temp_dir (0: not yet created)
    outDirExists,   \* the output directory exists
    cloned,         \* what git clone did
    bandit_data,    \* the engine's payload
    csv_data,       \* the rows collected by step 4
    altReport,      \* <output_dir>/compliance_report.csv
    \* functions called on their own
    convertArg,     \* the argument of convert_github_url_to_api
    convertRet,     \* what it returned
    listRet,        \* what a listing function returned
    file_list       \* the default file_list of get_file_list_recursive

fsVars == <<tempExists, tempFiles, report>>
scanVars == <<walkLeft, invoked, failed, b_results, issues>>
vars == <<tempExists, tempFiles, report, prog, pc, argv, api_url, exc, called,
          printed, response, staged, walkLeft, invoked, failed, b_results, issues,
          reportAtStart, saveCalls, tmpDirs, temp_dir, outDirExists, cloned,
          bandit_data, csv_data, altReport, convertArg, convertRet, listRet, file_list>>
primaryVars == <<tempExists, tempFiles, report, argv, api_url, called, response, staged,
                 walkLeft, invoked, failed, b_results, issues, reportAtStart, saveCalls>>
altVars == <<tmpDirs, temp_dir, outDirExists, cloned, bandit_data, csv_data, altReport>>
libVars == <<convertArg, convertRet, listRet, file_list>>

NoArgv == [argc |-> 0, ref |-> [prefix |-> "", path |-> <<>>]]

Init ==
    /\ tempExists = FALSE /\ tempFiles = {} /\ report = NoReport
    /\ prog = "none" /\ pc = "idle"
    /\ argv = NoArgv /\ api_url = NoneUrl /\ exc = "none"
    /\ called = {} /\ printed = {} /\ response = NoResponse /\ staged = {}
    /\ walkLeft = {} /\ invoked = <<>> /\ failed = {} /\ b_results = <<>>
    /\ issues = <<>> /\ reportAtStart = NoReport /\ saveCalls = 0
    /\ tmpDirs = {} /\ temp_dir = 0 /\ outDirExists = FALSE /\ cloned = "none"
    /\ bandit_data = NoPayload /\ csv_data = <<>> /\ altReport = NoAltReport
    /\ convertArg = NoArgv.ref /\ convertRet = NoneUrl /\ listRet = <<>>
    /\ file_list = <<>>

\* A new process: nothing of the previous run's memory is left.
FreshScan ==
    /\ walkLeft' = {} /\ invoked' = <<>> /\ failed' = {} /\ b_results' = <<>>
    /\ issues' = <<>>
CanStart == pc \in {"idle", "exited"}

\* --------------------------------------------- primary variant: entry point
\* Lines 199-210 of compliance_check.py, up to the call of main.
Entry ==
    /\ CanStart
    /\ \E cl \in CommandLines :
        LET r == convert_github_url_to_api(cl.ref) IN
        /\ argv' = cl
        /\ IF cl.argc # 2
           THEN /\ printed' = {"usage"}
                /\ api_url' = NoneUrl /\ exc' = "none" /\ pc' = "main"
                /\ called' = {}
           ELSE /\ called' = {"convert_github_url_to_api"}
                /\ IF r.exc = "none"
                   THEN /\ printed' = {"api_url"}
                        /\ api_url' = r.val /\ exc' = "none" /\ pc' = "main"
                   ELSE IF r.exc = "ValueError"
                   THEN /\ printed' = {"Invalid GitHub URL"}
                        /\ api_url' = NoneUrl /\ exc' = "none" /\ pc' = "main"
                   ELSE /\ printed' = {"traceback"}
                        /\ api_url' = NoneUrl /\ exc' = r.exc /\ pc' = "exited"
    /\ prog' = "primary"
    /\ response' = NoResponse /\ staged' = {} /\ saveCalls' = 0
    /\ reportAtStart' = report
    /\ FreshScan
    /\ UNCHANGED fsVars
    /\ UNCHANGED altVars
    /\ UNCHANGED libVars

\* main, line 188: download_files(repo_url, directory)
DownloadStep(resp, failAt) ==
    LET r == download_files(api_url, resp, tempExists, tempFiles, failAt) IN
    /\ response' = resp
    /\ tempExists' = r.exists /\ tempFiles' = r.files /\ staged' = r.staged
    /\ called' = called \cup {"main", "download_files", "requests.get"}
                    \cup (IF r.made THEN {"os.makedirs"} ELSE {})
    /\ IF r.exc = "none"
       THEN pc' = "scan" /\ exc' = "none" /\ printed' = printed
       ELSE pc' = "exited" /\ exc' = r.exc /\ printed' = printed \cup {"traceback"}

Download ==
    /\ pc = "main"
    /\ IF api_url = NoneUrl
       THEN DownloadStep(NoResponse, 0)
       ELSE \E resp \in Responses : \E failAt \in 0..Len(resp.entries) :
                DownloadStep(resp, failAt)
    /\ UNCHANGED <<report, prog, argv, api_url, reportAtStart, saveCalls>>
    /\ UNCHANGED scanVars
    /\ UNCHANGED altVars
    /\ UNCHANGED libVars

\* scan_directory, lines 108-112: the manager is created and the walk starts
ScanStart ==
    /\ pc = "scan"
    /\ pc' = "walk"
    /\ called' = called \cup {"scan_directory"}
    /\ walkLeft' = IF tempExists THEN {f.name : f \in tempFiles} ELSE {}
    /\ invoked' = <<>> /\ failed' = {} /\ b_results' = <<>> /\ issues' = <<>>
    /\ UNCHANGED <<prog, argv, api_url, exc, printed, response, staged,
                   reportAtStart, saveCalls>>
    /\ UNCHANGED fsVars
    /\ UNCHANGED altVars
    /\ UNCHANGED libVars

\* One turn of the loop of lines 112-118 that reaches line 115: os.walk yields
\* the files in no fixed order, and those the filter of line 114 rejects are
\* passed over.
ScanFile ==
    /\ pc = "walk"
    /\ \E name \in walkLeft, outcome \in EngineOutcomes :
        LET r == run_bandit_on_file(b_results, <<"temp", name>>, outcome,
                                    Len(b_results) + 1) IN
        /\ IsPythonName(name)
        /\ Len(b_results) + Len(outcome.kinds) <= MaxFindings
        /\ walkLeft' = walkLeft \ {name}
        /\ invoked' = Append(invoked, name)
        /\ failed' = IF outcome.raises THEN failed \cup {name} ELSE failed
        /\ b_results' = r.results
        /\ IF r.exc = "none"
           THEN /\ issues' = issues \o r.ret
                /\ pc' = "walk" /\ exc' = "none" /\ printed' = printed
           ELSE /\ issues' = issues
                /\ pc' = "exited" /\ exc' = r.exc
                /\ printed' = printed \cup {"traceback"}
    /\ UNCHANGED <<prog, argv, api_url, called, response, staged,
                   reportAtStart, saveCalls>>
    /\ UNCHANGED fsVars
    /\ UNCHANGED altVars
    /\ UNCHANGED libVars

\* scan_directory returns (line 120) and main goes on: lines 189-197
Report ==
    /\ pc = "walk" /\ \A name \in walkLeft : ~IsPythonName(name)
    /\ IF issues # <<>>
       THEN \E writable \in BOOLEAN :
            /\ called' = called \cup {"save_compliance_report"}
            /\ saveCalls' = saveCalls + 1
            /\ IF writable
               THEN /\ report' = save_compliance_report(issues)
                    /\ printed' = printed \cup {"issue list", "Issues saved"}
                    /\ exc' = "none"
               ELSE /\ report' = report
                    /\ printed' = printed \cup {"issue list", "traceback"}
                    /\ exc' = "OSError"
       ELSE /\ printed' = printed \cup {"issue list", "No issues found."}
            /\ UNCHANGED <<called, saveCalls, report, exc>>
    /\ pc' = "exited"
    /\ UNCHANGED <<tempExists, tempFiles, prog, argv, api_url, response, staged,
                   reportAtStart>>
    /\ UNCHANGED scanVars
    /\ UNCHANGED altVars
    /\ UNCHANGED libVars

\* ------------------------------------------------ clone-based variant
\* Lines 47-58 of .github/workflows/compliance_check.py, up to run_bandit.
AltEntry ==
    /\ CanStart
    /\ Cardinality(tmpDirs) < MaxTmpDirs
    /\ prog' = "alt"
    /\ \E argc \in {2, 3} :
        IF argc # 3
        THEN /\ printed' = {"usage"} /\ exc' = "SystemExit" /\ pc' = "exited"
             /\ outDirExists' = outDirExists
        ELSE /\ printed' = {} /\ exc' = "none" /\ pc' = "run_bandit"
             /\ outDirExists' = TRUE
    /\ temp_dir' = 0 /\ cloned' = "none" /\ bandit_data' = NoPayload /\ csv_data' = <<>>
    /\ UNCHANGED <<tmpDirs, altReport>>
    /\ UNCHANGED primaryVars
    /\ UNCHANGED libVars

\* Step 1, lines 11-12: mkdtemp, then git clone.  A clone that fails leaves a
\* non-zero exit status, which nothing checks; a missing git raises.
Clone ==
    /\ pc = "run_bandit"
    /\ temp_dir' = FreshDir(tmpDirs)
    /\ tmpDirs' = tmpDirs \cup {FreshDir(tmpDirs)}
    /\ \E outcome \in {"ok", "failed", "FileNotFoundError"} :
        /\ cloned' = outcome
        /\ IF outcome = "FileNotFoundError"
           THEN pc' = "exited" /\ exc' = outcome /\ printed' = printed \cup {"traceback"}
           ELSE pc' = "analyse" /\ UNCHANGED <<exc, printed>>
    /\ UNCHANGED <<prog, outDirExists, bandit_data, csv_data, altReport>>
    /\ UNCHANGED primaryVars
    /\ UNCHANGED libVars

\* Steps 2 and 3, lines 15-19: the engine runs and its stdout is parsed.
Analyse ==
    /\ pc = "analyse"
    /\ \E launched \in BOOLEAN, payload \in Payloads :
        /\ (cloned = "failed" => payload.results = <<>>)
        /\ (~launched => payload = NoPayload)
        /\ IF ~launched
           THEN /\ pc' = "exited" /\ exc' = "FileNotFoundError"
                /\ bandit_data' = bandit_data
           ELSE IF ~payload.json
           THEN /\ pc' = "exited" /\ exc' = "JSONDecodeError"
                /\ bandit_data' = bandit_data
           ELSE /\ pc' = "convert" /\ exc' = "none"
                /\ bandit_data' = payload
    /\ printed' = IF pc' = "exited" THEN printed \cup {"traceback"} ELSE printed
    /\ UNCHANGED <<prog, tmpDirs, temp_dir, outDirExists, cloned, csv_data, altReport>>
    /\ UNCHANGED primaryVars
    /\ UNCHANGED libVars

\* Step 4, lines 22-33
Convert ==
    /\ pc = "convert"
    /\ LET r == CsvRows(bandit_data.results) IN
        IF ~bandit_data.hasResults \/ r.exc # "none"
        THEN /\ pc' = "exited" /\ exc' = "KeyError"
             /\ printed' = printed \cup {"traceback"}
             /\ csv_data' = csv_data
        ELSE /\ pc' = "write" /\ csv_data' = r.rows
             /\ UNCHANGED <<exc, printed>>
    /\ UNCHANGED <<prog, tmpDirs, temp_dir, outDirExists, cloned, bandit_data, altReport>>
    /\ UNCHANGED primaryVars
    /\ UNCHANGED libVars

\* Step 5, lines 36-42
WriteCsv ==
    /\ pc = "write"
    /\ \E writable \in BOOLEAN :
        IF writable
        THEN /\ altReport' = [exists |-> TRUE, header |-> AltHeaders, rows |-> csv_data]
             /\ printed' = printed \cup {"created"}
             /\ pc' = "cleanup" /\ exc' = exc
        ELSE /\ altReport' = altReport
             /\ printed' = printed \cup {"traceback"}
             /\ pc' = "exited" /\ exc' = "OSError"
    /\ UNCHANGED <<prog, tmpDirs, temp_dir, outDirExists, cloned, bandit_data, csv_data>>
    /\ UNCHANGED primaryVars
    /\ UNCHANGED libVars

\* Step 6, line 45
Cleanup ==
    /\ pc = "cleanup"
    /\ tmpDirs' = tmpDirs \ {temp_dir}
    /\ pc' = "exited"
    /\ UNCHANGED <<prog, exc, printed, temp_dir, outDirExists, cloned, bandit_data,
                   csv_data, altReport>>
    /\ UNCHANGED primaryVars
    /\ UNCHANGED libVars

NextAlt ==
    \/ AltEntry
    \/ Clone
    \/ Analyse
    \/ Convert
    \/ WriteCsv
    \/ Cleanup

SpecAlt == Init /\ [][NextAlt]_vars

\* ------------------------------------------ functions called on their own
\* A caller in one process calls a function of compliance_check.py.
LibReset ==
    /\ argv' = NoArgv /\ api_url' = NoneUrl /\ called' = {} /\ printed' = {}
    /\ staged' = {} /\ reportAtStart' = report /\ saveCalls' = 0
    /\ walkLeft' = {} /\ invoked' = <<>> /\ failed' = {} /\ b_results' = <<>>
    /\ UNCHANGED <<tempExists, tempFiles>>
    /\ UNCHANGED altVars

CallConvert ==
    /\ \E url \in References :
        LET r == convert_github_url_to_api(url) IN
        /\ convertArg' = url /\ convertRet' = r.val /\ exc' = r.exc
    /\ prog' = "convert_github_url_to_api" /\ pc' = "returned"
    /\ response' = NoResponse /\ listRet' = <<>> /\ issues' = <<>>
    /\ UNCHANGED <<report, file_list>>
    /\ LibReset

CallGetFirstLevelFiles ==
    /\ \E resp \in Responses :
        LET r == get_first_level_files(resp) IN
        /\ response' = resp /\ listRet' = r.ret /\ exc' = r.exc
    /\ prog' = "get_first_level_files" /\ pc' = "returned"
    /\ convertArg' = NoArgv.ref /\ convertRet' = NoneUrl /\ issues' = <<>>
    /\ UNCHANGED <<report, file_list>>
    /\ LibReset

CallGetFileListRecursive ==
    /\ \E resp \in Responses :
        LET r == get_file_list_recursive(resp, file_list) IN
        /\ response' = resp /\ listRet' = r.ret /\ exc' = r.exc
        /\ file_list' = r.list
    /\ prog' = "get_file_list_recursive" /\ pc' = "returned"
    /\ convertArg' = NoArgv.ref /\ convertRet' = NoneUrl /\ issues' = <<>>
    /\ UNCHANGED report
    /\ LibReset

CallSaveComplianceReport ==
    /\ \E list \in IssueLists :
        /\ issues' = list
        /\ report' = save_compliance_report(list)
    /\ prog' = "save_compliance_report" /\ pc' = "returned" /\ exc' = "none"
    /\ convertArg' = NoArgv.ref /\ convertRet' = NoneUrl
    /\ response' = NoResponse /\ listRet' = <<>>
    /\ UNCHANGED file_list
    /\ LibReset

NextLib ==
    \/ CallConvert
    \/ CallGetFirstLevelFiles
    \/ CallGetFileListRecursive
    \/ CallSaveComplianceReport

SpecLib == Init /\ [][NextLib]_vars

Next ==
    \/ Entry
    \/ Download
    \/ ScanStart
    \/ ScanFile
    \/ Report

Spec == Init /\ [][Next]_vars

\* ------------------------------------------------------------------ claims
ScanFinished == prog = "primary" /\ pc = "exited" /\ "scan_directory" \in called

\* C1: in the clone-based variant, whenever run_bandit has ended, by returning
\* or by raising, the temporary directory it created no longer exists.
C1_TempDirRemovedOnEveryExit ==
    (prog = "alt" /\ pc = "exited" /\ temp_dir # 0) => temp_dir \notin tmpDirs

\* C2: in the primary variant, when convert_github_url_to_api fails for the
\* command-line reference, the run performs no later pipeline step: main is
\* not entered, no listing request is made, no directory is created, nothing
\* is analysed and no report is written.
C2_InvalidReferenceIsFatal ==
    (prog = "primary" /\ argv.argc = 2
        /\ convert_github_url_to_api(argv.ref).exc # "none")
    => called \cap {"main", "download_files", "requests.get", "os.makedirs",
                    "scan_directory", "save_compliance_report"} = {}

\* C3: for a reference with the host prefix and fewer than two path segments,
\* convert_github_url_to_api raises the exception it raises for a wrong host
\* prefix (ValueError, the one the entry point catches) and returns nothing.
C3_ShortPathIsInvalidReference ==
    (prog = "convert_github_url_to_api" /\ pc = "returned"
        /\ convertArg.prefix = GitHubPrefix /\ Len(convertArg.path) < 2)
    => (exc = "ValueError" /\ convertRet = NoneUrl)

\* C4: when download_files has returned, the names it staged are exactly the
\* .py files reachable through the listing and its nested directory listings.
C4_RetrievalRecurses ==
    (prog = "primary" /\ pc = "scan") => staged = PythonFilesOf(response.entries)

\* C5: when the listing response has a status other than 200, the run fails
\* before the staging directory is created and before anything is staged,
\* analysed or reported.
C5_NonSuccessStatusFails ==
    (prog = "primary" /\ response.net = "ok" /\ ~PyEq(response.status, PyInt(200)))
    => /\ pc = "exited" /\ exc # "none"
       /\ "os.makedirs" \notin called /\ staged = {}
       /\ "scan_directory" \notin called /\ saveCalls = 0

\* the findings of an issue list after normalization: its distinct rows
NormalizedFindings(list) == {format_issue(i) : i \in Range(list)}

\* C6: when main has ended after the analysis: with no finding it has not
\* called save_compliance_report, has left the report as it was and has
\* printed "No issues found."; with findings it has called
\* save_compliance_report exactly once, and the report written has the
\* header and one row per normalized (deduplicated) finding.
C6_ReportIffFindings ==
    ScanFinished =>
        IF issues = <<>>
        THEN /\ saveCalls = 0 /\ report = reportAtStart
             /\ "No issues found." \in printed
        ELSE /\ saveCalls = 1 /\ "No issues found." \notin printed
             /\ exc = "none" =>
                    /\ report.exists /\ report.header = Columns
                    /\ BagCardinality(report.rows)
                           = Cardinality(NormalizedFindings(issues))

\* The part of C6 that is about the branch alone: the report is written if
\* and only if there are findings, once, and then with one row per issue
\* object.
MainWritesIffFindings ==
    ScanFinished =>
        IF issues = <<>>
        THEN /\ saveCalls = 0 /\ report = reportAtStart
             /\ "No issues found." \in printed
        ELSE /\ saveCalls = 1 /\ "No issues found." \notin printed
             /\ exc = "none" =>
                    /\ report.exists /\ report.header = Columns
                    /\ BagCardinality(report.rows) = Cardinality(Range(issues))

\* C7: the report save_compliance_report writes has no two rows that agree in
\* every field.
C7_NoIdenticalRows ==
    (prog = "save_compliance_report" /\ pc = "returned")
    => \A r \in BagToSet(report.rows) : CopiesIn(r, report.rows) = 1

\* the .py files (by the filter of scan_directory) of the staging directory
ScannableFiles == {f.name : f \in {g \in tempFiles : IsPythonName(g.name)}}

\* C8: a raising engine invocation does not end scan_directory: the scan
\* never ends the run with an exception, when it has returned the engine has
\* been invoked once on every .py file of the directory, and no issue of the
\* returned list belongs to a file whose invocation raised.
C8_PerFileFailureNonFatal ==
    (prog = "primary" /\ "scan_directory" \in called)
    => /\ pc = "walk" => exc = "none"
       /\ pc = "exited" =>
            /\ "issue list" \in printed
            /\ Range(invoked) = ScannableFiles
            /\ Len(invoked) = Cardinality(ScannableFiles)
       /\ \A i \in DOMAIN issues : issues[i].fname[2] \notin failed

\* a scan has returned in which an invocation raised and a later invocation,
\* on another file, contributed issues
C8_Witness ==
    /\ ScanFinished
    /\ \E i, j \in DOMAIN invoked :
        /\ i < j /\ invoked[i] \in failed /\ invoked[j] \notin failed
        /\ \E k \in DOMAIN issues : issues[k].fname[2] = invoked[j]

\* C9: a listing function called with a response of status 200 passes the
\* status check, and get_first_level_files then returns the download URLs of
\* the file entries; with any other status the check fails.
C9_NumericStatusCheck ==
    (prog \in {"get_first_level_files", "get_file_list_recursive"}
        /\ pc = "returned" /\ response.net = "ok")
    => IF PyEq(response.status, PyInt(200))
       THEN /\ exc # "AssertionError"
            /\ prog = "get_first_level_files"
                   => (exc = "none" /\ listRet = DownloadUrls(response.entries))
       ELSE exc = "AssertionError"

\* C10: in every run of main, the files scan_directory has analysed are
\* exactly the files download_files staged in that run.
C10_ScannedEqualsStaged ==
    ScanFinished => Range(invoked) = staged

====
